---- MODULE Spec2Model ----
(***************************************************************************)
(* The rustdoc search index of the ticktock crate (search-index.js).       *)
(* The script builds the global `searchIndex`, stores the crate's document *)
(* under its name and hands the index to the documentation browser, which  *)
(* reads item records out of it and resolves their parent through `paths`. *)
(***************************************************************************)
EXTENDS Integers, Sequences, FiniteSets, TLC

VARIABLES pc, searchIndex, crate, pos, field, row, parent

vars == <<pc, searchIndex, crate, pos, field, row, parent>>

(* ---- JavaScript values ------------------------------------------------ *)

\* JS null; a nullable field holds Null or Some(value).
Null == <<>>

Some(x) == <<x>>

\* What indexing past the end of an array, or with null, yields.
Undefined == <<"undefined">>

\* Zero-based array access: seq[n] in JavaScript.
At(seq, n) == IF n \in 0..(Len(seq) - 1) THEN seq[n + 1] ELSE Undefined

(* ---- the data of search-index.js --------------------------------------- *)

KindModule == 0

KindStruct == 3

KindMethod == 11

\* {"name": n}
Ty(n) == [name |-> n]

\* {"inputs": [...], "output": {...}}
Sig(ins, out) == Some([inputs |-> ins, output |-> out])

CrateName == "ticktock"

Doc == "Timing module for frame-based applications"

\* The item records. A backquote of a description is written as ' here, the
\* string syntax having no backquote.
Items ==
  << <<KindModule, "clock", "ticktock", "Frame clock module", Null, Null>>,
     <<KindStruct, "Clock", "ticktock::clock", "Clock structure.", Null, Null>>,
     <<KindStruct, "ClockIter", "", "A clock iterator", Null, Null>>,
     <<KindStruct, "ClockIterRelative", "",
       "Similar to 'ClockIter', but returns a relative time instead.", Null, Null>>,
     <<KindMethod, "new", "", "Creates a new clock.", Some(0),
       Sig(<<Ty("duration")>>, Ty("clock"))>>,
     <<KindMethod, "new_with_start_time", "",
       "Creates a new clock with a specified start time", Some(0),
       Sig(<<Ty("duration"), Ty("instant")>>, Ty("clock"))>>,
     <<KindMethod, "synced", "",
       "Creates a new clock with a different tick length that is synced to\nthe original clock",
       Some(0), Sig(<<Ty("clock"), Ty("duration")>>, Ty("clock"))>>,
     <<KindMethod, "start", "", "Get start time", Some(0),
       Sig(<<Ty("clock")>>, Ty("instant"))>>,
     <<KindMethod, "wait_until_tick", "", "Waits for the next clock tick.", Some(0), Null>>,
     <<KindMethod, "iter", "", "Creates a clock iterator.", Some(0),
       Sig(<<Ty("clock")>>, Ty("clockiter"))>>,
     <<KindMethod, "rel_iter", "", "Create a relative clock iterator.", Some(0),
       Sig(<<Ty("clock")>>, Ty("clockiterrelative"))>>,
     <<KindMethod, "next", "", "", Some(1),
       Sig(<<Ty("clockiter")>>, Ty("option"))>>,
     <<KindMethod, "next", "", "", Some(2),
       Sig(<<Ty("clockiterrelative")>>, Ty("option"))>>,
     <<KindModule, "timer", "ticktock", "Non-selfupdating interval timers", Null, Null>>,
     <<KindStruct, "Timer", "ticktock::timer", "Interval-timer", Null, Null>>,
     <<KindMethod, "new", "", "Creates a new timer.", Some(3),
       Sig(<<Ty("duration")>>, Ty("timer"))>>,
     <<KindMethod, "new_with_start_time", "",
       "Creates a new timer with a specific start time", Some(3),
       Sig(<<Ty("duration"), Ty("instant")>>, Ty("timer"))>>,
     <<KindMethod, "has_fired", "",
       "Returns true if the timer has fired since the last time passed to\n'reset()'.",
       Some(3), Sig(<<Ty("timer"), Ty("instant")>>, Ty("bool"))>>,
     <<KindMethod, "remaining", "", "Remaining time until the timer will fire again.",
       Some(3), Sig(<<Ty("timer"), Ty("instant")>>, Ty("duration"))>>,
     <<KindMethod, "reset", "", "Notify the timer it has been executed.", Some(3),
       Sig(<<Ty("timer"), Ty("instant")>>, Ty("u32"))>>,
     <<KindMethod, "handle", "", "Combines 'has_fired()' and 'reset()'.", Some(3),
       Sig(<<Ty("timer"), Ty("instant")>>, Ty("bool"))>> >>

\* `paths` with its last entry dropped.
PathsTruncated ==
  << <<KindStruct, "Clock">>, <<KindStruct, "ClockIter">>,
     <<KindStruct, "ClockIterRelative">> >>

Paths ==
  << <<KindStruct, "Clock">>, <<KindStruct, "ClockIter">>,
     <<KindStruct, "ClockIterRelative">>, <<KindStruct, "Timer">> >>

\* The document object stored under the crate's name.
CrateDoc == [doc |-> Doc, items |-> Items, paths |-> Paths]

(* ---- the script -------------------------------------------------------- *)

\* var searchIndex = {};
Init ==
  /\ pc = "assign"
  /\ searchIndex = [c \in {} |-> CrateDoc]
  /\ crate = ""
  /\ pos = -1
  /\ field = -1
  /\ row = Undefined
  /\ parent = Undefined

\* searchIndex["ticktock"] = {...};
Assign ==
  /\ pc = "assign"
  /\ searchIndex' = [c \in DOMAIN searchIndex \cup {CrateName} |->
                       IF c = CrateName THEN CrateDoc ELSE searchIndex[c]]
  /\ pc' = "initSearch"
  /\ UNCHANGED <<crate, pos, field, row, parent>>

\* initSearch(searchIndex);
InitSearch ==
  /\ pc = "initSearch"
  /\ pc' = "ready"
  /\ UNCHANGED <<searchIndex, crate, pos, field, row, parent>>

(* ---- the reader of the index ------------------------------------------- *)

\* The parent a record names: paths[row[4]], undefined for a null parent.
ParentOf(d, r) == IF r[5] = Null THEN Undefined ELSE At(d.paths, r[5][1])

\* The browser reads field k of item record i of crate c and resolves the
\* record's parent.
ReadField(c, i, k) ==
  /\ pc = "ready"
  /\ crate' = c
  /\ pos' = i
  /\ field' = k
  /\ row' = At(searchIndex[c].items, i)
  /\ parent' = ParentOf(searchIndex[c], row')
  /\ UNCHANGED <<pc, searchIndex>>

Read ==
  \E c \in DOMAIN searchIndex :
    \E i \in 0..(Len(searchIndex[c].items) - 1) :
      \E k \in 0..(Len(At(searchIndex[c].items, i)) - 1) :
        ReadField(c, i, k)

Next == Assign \/ InitSearch \/ Read

Spec == Init /\ [][Next]_vars

(* ---- properties -------------------------------------------------------- *)

\* A record of document d is well formed: six fields, a parent that is null
\* or a position of d.paths naming a struct that is itself an item record,
\* and never null for a method.
WellFormed(d, r) ==
  /\ Len(r) = 6
  /\ r[5] # Null =>
       /\ r[5][1] \in 0..(Len(d.paths) - 1)
       /\ At(d.paths, r[5][1])[1] = KindStruct
       /\ \E j \in 1..Len(d.items) :
            /\ d.items[j][1] = KindStruct
            /\ d.items[j][2] = At(d.paths, r[5][1])[2]
  /\ r[1] = KindMethod => r[5] # Null

\* C8: every item record of the search index is a 6-element tuple; every
\* non-null parent index is a valid position in `paths` naming a struct
\* (kind 3) that also appears as an item record; no method record (kind 11)
\* has a null parent. The record the reader holds is one of them, and the
\* parent it resolved for a method is a struct entry of `paths`.
RecordsWellFormed ==
  /\ \A c \in DOMAIN searchIndex :
       \A i \in 1..Len(searchIndex[c].items) :
         WellFormed(searchIndex[c], searchIndex[c].items[i])
  /\ pos >= 0 =>
       /\ WellFormed(searchIndex[crate], row)
       /\ row[1] = KindMethod =>
            /\ parent # Undefined
            /\ parent[1] = KindStruct

\* The reader holds a method record whose parent resolved to the last entry
\* of `paths`.
MethodParentResolved ==
  /\ pc = "ready"
  /\ pos >= 0
  /\ row[1] = KindMethod
  /\ row[2] = "handle"
  /\ field = 4
  /\ parent = <<KindStruct, "Timer">>

====
